---- MODULE Spec2Model ----
(***************************************************************************)
(* Repository layer of the friend knowledgebase backend                    *)
(* (src/backend/src/repositories).  Every repository method issues one SQL *)
(* statement against the pool; the model keeps the seven tables the        *)
(* statements touch, executes each statement atomically the way PostgreSQL *)
(* does, classifies the raw error with RepositoryError::from_sqlx and      *)
(* records the call and its result in `last`.                              *)
(*                                                                         *)
(* Strings are small naturals (their order is the ORDER BY order), None /  *)
(* SQL NULL is NULL, UUIDs are the naturals handed out by nextId.          *)
(***************************************************************************)
EXTENDS Integers, FiniteSets, Sequences, Bags, TLC

\* ------------------------------------------------------------------ bounds
\* number of rows with a generated identifier a run inserts
MaxInserts == 1
\* number of update calls a run makes
MaxUpdates == 1

\* ------------------------------------------------------------- value sets
\* Option::None of the inputs, NULL of the columns, None of fetch_optional
NULL == -1
\* the literal "text", the default value_type of a friend attribute
Text == 0
\* caller supplied strings
Str == {1, 2}
\* a string field whose value does not matter to the caller
One == {1}
Opt(S) == S \cup {NULL}
\* an identifier no row carries
NoSuchId == 0

VARIABLES
    users,                      \* table users
    friends,                    \* table friends
    groups,                     \* table groups
    friend_groups,              \* table friend_groups: a bag of <<friend_id, group_id>>
    friend_attributes,          \* table friend_attributes
    friend_relationships,       \* table friend_relationships
    user_friend_relationships,  \* table user_friend_relationships
    nextId,                     \* the next identifier the store generates
    clock,                      \* the store's now()
    inserts,                    \* rows with a generated identifier inserted so far
    updates,                    \* update calls made so far
    last,                       \* the last repository call and its result
    calls                       \* the call each concurrent caller has in flight

db == <<users, friends, groups, friend_groups, friend_attributes,
        friend_relationships, user_friend_relationships>>
vars == <<users, friends, groups, friend_groups, friend_attributes,
          friend_relationships, user_friend_relationships,
          nextId, clock, inserts, updates, last, calls>>

\* ------------------------------------------------------- error classifier
\* sqlx::Error values the statements of this layer can meet: the variant, the
\* vendor code of a database error (NULL when it has none) and its message
RowNotFound == [variant |-> "RowNotFound", code |-> NULL, message |-> "no rows returned"]
DatabaseError(code, message) == [variant |-> "Database", code |-> code, message |-> message]

\* SQLSTATE unique_violation and foreign_key_violation
UniqueViolationCode == 23505
ForeignKeyViolationCode == 23503

\* RepositoryError: the kind, the vendor message Duplicate and
\* ForeignKeyViolation carry, the sqlx::Error Database wraps
NotFound == [kind |-> "NotFound", message |-> "", source |-> {}]
Duplicate(message) == [kind |-> "Duplicate", message |-> message, source |-> {}]
ForeignKeyViolationError(message) ==
    [kind |-> "ForeignKeyViolation", message |-> message, source |-> {}]
Database(err) == [kind |-> "Database", message |-> "", source |-> {err}]

from_sqlx_not_found_as_database(err) ==
    IF err.variant = "Database" /\ err.code = UniqueViolationCode
        THEN Duplicate(err.message)
    ELSE IF err.variant = "Database" /\ err.code = ForeignKeyViolationCode
        THEN ForeignKeyViolationError(err.message)
    ELSE Database(err)

from_sqlx_fk_as_database(err) ==
    IF err.variant = "RowNotFound" THEN NotFound
    ELSE IF err.variant = "Database" /\ err.code = UniqueViolationCode
        THEN Duplicate(err.message)
    ELSE Database(err)

from_sqlx_no_duplicate(err) ==
    IF err.variant = "RowNotFound" THEN NotFound
    ELSE IF err.variant = "Database" /\ err.code = ForeignKeyViolationCode
        THEN ForeignKeyViolationError(err.message)
    ELSE Database(err)

from_sqlx(err) ==
    IF err.variant = "RowNotFound" THEN NotFound
    ELSE IF err.variant = "Database"
        THEN IF err.code # NULL
            THEN IF err.code = UniqueViolationCode
                    THEN Duplicate(err.message)
                 ELSE IF err.code = ForeignKeyViolationCode
                    THEN ForeignKeyViolationError(err.message)
                 ELSE Database(err)
            ELSE Database(err)
    ELSE Database(err)

\* Result<T, RepositoryError>: val holds the value of an Ok (nothing for
\* Ok(None) and Ok(())), err the error of an Err
Ok(v) == [ok |-> TRUE, val |-> {v}, err |-> {}]
OkNone == [ok |-> TRUE, val |-> {}, err |-> {}]
Err(e) == [ok |-> FALSE, val |-> {}, err |-> {e}]

\* the raw errors PostgreSQL raises for the constraints of the schema
UniqueViolation(constraint) == DatabaseError(UniqueViolationCode, constraint)
ForeignKeyViolation(constraint) == DatabaseError(ForeignKeyViolationCode, constraint)

\* ------------------------------------------------------------ SQL helpers
\* COALESCE($n, column)
COALESCE_ignore(new, old) == old
COALESCE_clear(new, old) == new
COALESCE(new, old) == IF new # NULL THEN new ELSE old

\* fetch_optional: None when the statement yields no row, otherwise the first
\* row it yields.  No statement of this layer that is fetched this way has an
\* ORDER BY, so any of the rows may come first: the set of possible outcomes,
\* each an Option (no row, or one).
fetch_optional_none(rows) == {{}}
fetch_optional(rows) == IF rows = {} THEN {{}} ELSE {{r} : r \in rows}

\* the possible results of a finder: Ok(None) or Ok(Some(row))
Found(rows) == {[ok |-> TRUE, val |-> o, err |-> {}] : o \in fetch_optional(rows)}

\* ORDER BY key ASC over the rows a SELECT yields, a bag: every sequence
\* that holds each row as often as the bag does with key never descending.
\* Rows of equal key come in any order.
OrderBy_unordered(rows, key) ==
    {s \in [1 .. BagCardinality(rows) -> DOMAIN rows] :
        \A r \in DOMAIN rows : Cardinality({i \in DOMAIN s : s[i] = r}) = rows[r]}
OrderBy(rows, key) ==
    {s \in [1 .. BagCardinality(rows) -> DOMAIN rows] :
        /\ \A r \in DOMAIN rows : Cardinality({i \in DOMAIN s : s[i] = r}) = rows[r]
        /\ \A i, j \in DOMAIN s : i < j => s[i][key] <= s[j][key]}

\* ORDER BY key DESC: the same with key never ascending
OrderByDesc_ascending(rows, key) == OrderBy(rows, key)
OrderByDesc(rows, key) ==
    {s \in [1 .. BagCardinality(rows) -> DOMAIN rows] :
        /\ \A r \in DOMAIN rows : Cardinality({i \in DOMAIN s : s[i] = r}) = rows[r]
        /\ \A i, j \in DOMAIN s : i < j => s[i][key] >= s[j][key]}

\* the possible results of a listing: Ok(rows) for each order fetch_all can
\* return them in
Listed(orders) == {[ok |-> TRUE, val |-> {s}, err |-> {}] : s \in orders}

\* the number of fields of an update input that are Some
Present(in) == Cardinality({f \in DOMAIN in : in[f] # NULL})
\* the update inputs a caller sends: no field, one field, or every field
Sent(inputs) ==
    {in \in inputs : Present(in) \in {0, 1, Cardinality(DOMAIN in)}}

IdsOf(table) == {r.id : r \in table}
ById(table, id) == {r \in table : r.id = id}
\* a caller passes the identifier of a row it has seen, or some other one
Ref(table) == IdsOf(table) \cup {NoSuchId}

\* the record of a call: the repository, the method, the key it was given
\* (<<id>>, a pair, or <<>>), the Result it returned, and whether
\* it repeats the call before it (same method, same key) and that one succeeded
Call(repo, op, id, res) ==
    [repo |-> repo, op |-> op, id |-> id, res |-> res,
     repeat |-> (last.repo = repo /\ last.op = op /\ last.id = id /\ last.res.ok)]

\* a statement that raises an error (or matches no row) changes nothing
Unchanged ==
    UNCHANGED <<users, friends, groups, friend_groups, friend_attributes,
                friend_relationships, user_friend_relationships, nextId, clock,
                inserts>>

\* .map_err(RepositoryError::from_sqlx)?
Fails(repo, op, id, raw) ==
    Unchanged /\ last' = Call(repo, op, id, Err(from_sqlx(raw)))

\* .ok_or(RepositoryError::NotFound)?
Misses_as_ok(repo, op, id) ==
    Unchanged /\ last' = Call(repo, op, id, OkNone)
Misses(repo, op, id) ==
    Unchanged /\ last' = Call(repo, op, id, Err(NotFound))

\* INSERT ... RETURNING: the store generates the identifier and stamps the row
Inserted ==
    /\ inserts < MaxInserts
    /\ inserts' = inserts + 1
    /\ nextId' = nextId + 1
    /\ clock' = clock + 1

\* every update call counts; no other call does
CountUpdate == updates < MaxUpdates /\ updates' = updates + 1

\* Ok(result.rows_affected() > 0) of DELETE FROM table WHERE id = $1
Deleted_always(table, id) == TRUE
Deleted(table, id) == Cardinality(ById(table, id)) > 0

\* --------------------------------------------------- ON DELETE CASCADE
\* the rows that go when the users U, the friends F and the groups G go
DeadFriends(U, F) == F \cup {f.id : f \in {x \in friends : x.user_id \in U}}
DeadGroups(U, G) == G \cup {g.id : g \in {x \in groups : x.user_id \in U}}

CascadeFriends(U, F) == {f \in friends : f.id \notin DeadFriends(U, F)}
CascadeGroups(U, G) == {g \in groups : g.id \notin DeadGroups(U, G)}
CascadeFriendGroups(U, F, G) ==
    LET keep == {p \in DOMAIN friend_groups :
                    p[1] \notin DeadFriends(U, F) /\ p[2] \notin DeadGroups(U, G)}
    IN  [p \in keep |-> friend_groups[p]]
CascadeFriendAttributes(U, F) ==
    {a \in friend_attributes : a.friend_id \notin DeadFriends(U, F)}
CascadeFriendRelationships(U, F) ==
    {r \in friend_relationships :
        /\ r.user_id \notin U
        /\ r.friend_a_id \notin DeadFriends(U, F)
        /\ r.friend_b_id \notin DeadFriends(U, F)}
CascadeUserFriendRelationships(U, F) ==
    {r \in user_friend_relationships : r.friend_id \notin DeadFriends(U, F)}

\* ------------------------------------------------------- UserRepository
CreateUserInputs == [first_name : One, last_name : One, email : Str, password_hash : One]
UpdateUserInputs ==
    Sent([first_name : Opt({2}), last_name : Opt({2}), email : Opt(Str),
          password_hash : Opt({2})])

UserFindById(id) == Found(ById(users, id))
UserFindByEmail_any(email) == Found(users)
UserFindByEmail(email) == Found({u \in users : u.email = email})

UserRow(id, in, t) ==
    [id |-> id, first_name |-> in.first_name, last_name |-> in.last_name,
     email |-> in.email, password_hash |-> in.password_hash,
     created_at |-> t, updated_at |-> t]

UserCreate(in) ==
    /\ UNCHANGED updates
    /\ IF \E u \in users : u.email = in.email
       THEN Fails("User", "create", <<>>, UniqueViolation("users_email_key"))
       ELSE /\ Inserted
            /\ users' = users \cup {UserRow(nextId, in, clock)}
            /\ UNCHANGED <<friends, groups, friend_groups, friend_attributes,
                           friend_relationships, user_friend_relationships>>
            /\ last' = Call("User", "create", <<>>, Ok(UserRow(nextId, in, clock)))

UserSet(u, in) ==
    [u EXCEPT !.first_name = COALESCE(in.first_name, @),
              !.last_name = COALESCE(in.last_name, @),
              !.email = COALESCE(in.email, @),
              !.password_hash = COALESCE(in.password_hash, @)]

UserUpdate(id, in) ==
    /\ CountUpdate
    /\ IF ById(users, id) = {}
       THEN Misses("User", "update", <<id>>)
       ELSE \E old \in ById(users, id) :
            IF \E u \in users : u.id # id /\ u.email = UserSet(old, in).email
            THEN Fails("User", "update", <<id>>, UniqueViolation("users_email_key"))
            ELSE /\ users' = (users \ {old}) \cup {UserSet(old, in)}
                 /\ UNCHANGED <<friends, groups, friend_groups, friend_attributes,
                                friend_relationships, user_friend_relationships,
                                nextId, clock, inserts>>
                 /\ last' = Call("User", "update", <<id>>, Ok(UserSet(old, in)))

UserDelete_row_only(id) ==
    /\ users' = users \ ById(users, id)
    /\ UNCHANGED <<friends, groups, friend_groups, friend_attributes,
                   friend_relationships, user_friend_relationships,
                   nextId, clock, inserts, updates>>
    /\ last' = Call("User", "delete", <<id>>, Ok(Deleted(users, id)))
UserDelete(id) ==
    /\ users' = users \ ById(users, id)
    /\ friends' = CascadeFriends({id}, {})
    /\ groups' = CascadeGroups({id}, {})
    /\ friend_groups' = CascadeFriendGroups({id}, {}, {})
    /\ friend_attributes' = CascadeFriendAttributes({id}, {})
    /\ friend_relationships' = CascadeFriendRelationships({id}, {})
    /\ user_friend_relationships' = CascadeUserFriendRelationships({id}, {})
    /\ UNCHANGED <<nextId, clock, inserts, updates>>
    /\ last' = Call("User", "delete", <<id>>, Ok(Deleted(users, id)))

\* ----------------------------------------------------- FriendRepository
CreateFriendInputs ==
    [user_id : IdsOf(users), first_name : {1}, last_name : {NULL},
     date_of_birth : {NULL}, likes : {NULL}, dislikes : {NULL}, notes : {NULL}]
    \cup
    [user_id : Ref(users), first_name : {2}, last_name : One,
     date_of_birth : One, likes : One, dislikes : One, notes : One]
UpdateFriendInputs ==
    Sent([first_name : Opt(Str), last_name : Opt({2}), date_of_birth : Opt({2}),
          likes : Opt({2}), dislikes : Opt({2}), notes : Opt({2})])

FriendFindById(id) == Found(ById(friends, id))

\* SELECT ... FROM friends WHERE user_id = $1 ORDER BY first_name ASC
FriendListByUser(user_id) ==
    Listed(OrderBy(SetToBag({f \in friends : f.user_id = user_id}), "first_name"))

FriendRow(id, in, t) ==
    [id |-> id, user_id |-> in.user_id, first_name |-> in.first_name,
     last_name |-> in.last_name, date_of_birth |-> in.date_of_birth,
     likes |-> in.likes, dislikes |-> in.dislikes, notes |-> in.notes,
     created_at |-> t, updated_at |-> t]

FriendCreate(in) ==
    /\ UNCHANGED updates
    /\ IF in.user_id \notin IdsOf(users)
       THEN Fails("Friend", "create", <<>>, ForeignKeyViolation("friends_user_id_fkey"))
       ELSE /\ Inserted
            /\ friends' = friends \cup {FriendRow(nextId, in, clock)}
            /\ UNCHANGED <<users, groups, friend_groups, friend_attributes,
                           friend_relationships, user_friend_relationships>>
            /\ last' = Call("Friend", "create", <<>>, Ok(FriendRow(nextId, in, clock)))

FriendSet(f, in) ==
    [f EXCEPT !.first_name = COALESCE(in.first_name, @),
              !.last_name = COALESCE(in.last_name, @),
              !.date_of_birth = COALESCE(in.date_of_birth, @),
              !.likes = COALESCE(in.likes, @),
              !.dislikes = COALESCE(in.dislikes, @),
              !.notes = COALESCE(in.notes, @)]

FriendUpdate(id, in) ==
    /\ CountUpdate
    /\ IF ById(friends, id) = {}
       THEN Misses("Friend", "update", <<id>>)
       ELSE \E old \in ById(friends, id) :
            /\ friends' = (friends \ {old}) \cup {FriendSet(old, in)}
            /\ UNCHANGED <<users, groups, friend_groups, friend_attributes,
                           friend_relationships, user_friend_relationships,
                           nextId, clock, inserts>>
            /\ last' = Call("Friend", "update", <<id>>, Ok(FriendSet(old, in)))

FriendDelete(id) ==
    /\ friends' = CascadeFriends({}, {id})
    /\ friend_groups' = CascadeFriendGroups({}, {id}, {})
    /\ friend_attributes' = CascadeFriendAttributes({}, {id})
    /\ friend_relationships' = CascadeFriendRelationships({}, {id})
    /\ user_friend_relationships' = CascadeUserFriendRelationships({}, {id})
    /\ UNCHANGED <<users, groups, nextId, clock, inserts, updates>>
    /\ last' = Call("Friend", "delete", <<id>>, Ok(Deleted(friends, id)))

\* SELECT g.* FROM groups g INNER JOIN friend_groups fg ON fg.group_id = g.id
\* WHERE fg.friend_id = $1 ORDER BY g.name ASC: one row for every membership
\* row of the friend whose group is stored
FriendListGroups_of_any_friend(friend_id) ==
    Listed(OrderBy([g \in {x \in groups : \E p \in DOMAIN friend_groups : p[2] = x.id}
                       |-> 1], "name"))
FriendListGroups(friend_id) ==
    Listed(OrderBy([g \in {x \in groups : BagIn(<<friend_id, x.id>>, friend_groups)}
                       |-> CopiesIn(<<friend_id, g.id>>, friend_groups)], "name"))

\* the unique constraint on friend_groups (friend_id, group_id)
MembershipConflict(friend_id, group_id) == BagIn(<<friend_id, group_id>>, friend_groups)

\* INSERT INTO friend_groups (friend_id, group_id) VALUES ($1, $2)
\* ON CONFLICT DO NOTHING
InsertMembership_again(friend_id, group_id) ==
    friend_groups (+) SetToBag({<<friend_id, group_id>>})
InsertMembership(friend_id, group_id) ==
    IF MembershipConflict(friend_id, group_id)
    THEN friend_groups
    ELSE friend_groups (+) SetToBag({<<friend_id, group_id>>})

AddToGroup_plain_insert(friend_id, group_id) ==
    /\ UNCHANGED updates
    /\ IF friend_id \notin IdsOf(friends) \/ group_id \notin IdsOf(groups)
       THEN Fails("Friend", "add_to_group", <<friend_id, group_id>>,
                  ForeignKeyViolation("friend_groups_fkey"))
       ELSE IF MembershipConflict(friend_id, group_id)
       THEN Fails("Friend", "add_to_group", <<friend_id, group_id>>,
                  UniqueViolation("friend_groups_pkey"))
       ELSE /\ friend_groups' = friend_groups (+) SetToBag({<<friend_id, group_id>>})
            /\ UNCHANGED <<users, friends, groups, friend_attributes,
                           friend_relationships, user_friend_relationships,
                           nextId, clock, inserts>>
            /\ last' = Call("Friend", "add_to_group", <<friend_id, group_id>>, OkNone)

AddToGroup(friend_id, group_id) ==
    /\ UNCHANGED updates
    /\ IF friend_id \notin IdsOf(friends) \/ group_id \notin IdsOf(groups)
       THEN Fails("Friend", "add_to_group", <<friend_id, group_id>>,
                  ForeignKeyViolation("friend_groups_fkey"))
       ELSE /\ friend_groups' = InsertMembership(friend_id, group_id)
            /\ UNCHANGED <<users, friends, groups, friend_attributes,
                           friend_relationships, user_friend_relationships,
                           nextId, clock, inserts>>
            /\ last' = Call("Friend", "add_to_group", <<friend_id, group_id>>, OkNone)

\* DELETE FROM friend_groups WHERE friend_id = $1 AND group_id = $2
DeleteMembership_of_group(friend_id, group_id) ==
    [p \in {q \in DOMAIN friend_groups : q[2] # group_id} |-> friend_groups[p]]
DeleteMembership(friend_id, group_id) ==
    [p \in DOMAIN friend_groups \ {<<friend_id, group_id>>} |-> friend_groups[p]]

RemoveFromGroup(friend_id, group_id) ==
    /\ friend_groups' = DeleteMembership(friend_id, group_id)
    /\ UNCHANGED <<users, friends, groups, friend_attributes, friend_relationships,
                   user_friend_relationships, nextId, clock, inserts, updates>>
    /\ last' = Call("Friend", "remove_from_group", <<friend_id, group_id>>,
                    Ok(CopiesIn(<<friend_id, group_id>>, friend_groups) > 0))

\* ------------------------------------------------------ GroupRepository
CreateGroupInputs ==
    [user_id : IdsOf(users), name : {1}, description : {NULL}]
    \cup [user_id : Ref(users), name : {2}, description : One]
UpdateGroupInputs == Sent([name : Opt(Str), description : Opt({2})])

GroupFindById(id) == Found(ById(groups, id))

\* SELECT f.* FROM friends f INNER JOIN friend_groups fg ON fg.friend_id = f.id
\* WHERE fg.group_id = $1 ORDER BY f.first_name ASC
GroupListFriends(group_id) ==
    Listed(OrderBy([f \in {x \in friends : BagIn(<<x.id, group_id>>, friend_groups)}
                       |-> CopiesIn(<<f.id, group_id>>, friend_groups)], "first_name"))

GroupRow(id, in, t) ==
    [id |-> id, user_id |-> in.user_id, name |-> in.name,
     description |-> in.description, created_at |-> t, updated_at |-> t]

GroupCreate(in) ==
    /\ UNCHANGED updates
    /\ IF in.user_id \notin IdsOf(users)
       THEN Fails("Group", "create", <<>>, ForeignKeyViolation("groups_user_id_fkey"))
       ELSE /\ Inserted
            /\ groups' = groups \cup {GroupRow(nextId, in, clock)}
            /\ UNCHANGED <<users, friends, friend_groups, friend_attributes,
                           friend_relationships, user_friend_relationships>>
            /\ last' = Call("Group", "create", <<>>, Ok(GroupRow(nextId, in, clock)))

GroupSet(g, in) ==
    [g EXCEPT !.name = COALESCE(in.name, @),
              !.description = COALESCE(in.description, @)]

GroupUpdate(id, in) ==
    /\ CountUpdate
    /\ IF ById(groups, id) = {}
       THEN Misses("Group", "update", <<id>>)
       ELSE \E old \in ById(groups, id) :
            /\ groups' = (groups \ {old}) \cup {GroupSet(old, in)}
            /\ UNCHANGED <<users, friends, friend_groups, friend_attributes,
                           friend_relationships, user_friend_relationships,
                           nextId, clock, inserts>>
            /\ last' = Call("Group", "update", <<id>>, Ok(GroupSet(old, in)))

GroupDelete(id) ==
    /\ groups' = CascadeGroups({}, {id})
    /\ friend_groups' = CascadeFriendGroups({}, {}, {id})
    /\ UNCHANGED <<users, friends, friend_attributes, friend_relationships,
                   user_friend_relationships, nextId, clock, inserts, updates>>
    /\ last' = Call("Group", "delete", <<id>>, Ok(Deleted(groups, id)))

\* -------------------------------------------- FriendAttributeRepository
CreateFriendAttributeInputs ==
    [friend_id : IdsOf(friends), key : Str, value : {1}, value_type : {NULL}]
    \cup [friend_id : IdsOf(friends), key : Str, value : {2}, value_type : One]
    \cup [friend_id : {NoSuchId}, key : One, value : One, value_type : {NULL}]
UpdateFriendAttributeInputs == Sent([value : Opt(Str), value_type : Opt({2})])

FriendAttributeFindById(id) == Found(ById(friend_attributes, id))

\* the rows of a (friend_id, key) pair
ByFriendAndKey(friend_id, key) ==
    {a \in friend_attributes : a.friend_id = friend_id /\ a.key = key}

FindByFriendAndKey(friend_id, key) == Found(ByFriendAndKey(friend_id, key))

\* input.value_type.unwrap_or_else(|| "text".to_string())
ValueTypeOrText(value_type) == IF value_type = NULL THEN Text ELSE value_type

FriendAttributeRow(id, in, t) ==
    [id |-> id, friend_id |-> in.friend_id, key |-> in.key, value |-> in.value,
     value_type |-> ValueTypeOrText(in.value_type),
     created_at |-> t, updated_at |-> t]

\* the unique index on friend_attributes (friend_id, key) that
\* ON CONFLICT (friend_id, key) names
AttributeConflict_never(in) == FALSE
AttributeConflict(in) == ByFriendAndKey(in.friend_id, in.key) # {}

FriendAttributeCreate(in) ==
    /\ UNCHANGED updates
    /\ IF in.friend_id \notin IdsOf(friends)
       THEN Fails("FriendAttribute", "create", <<>>,
                  ForeignKeyViolation("friend_attributes_friend_id_fkey"))
       ELSE IF AttributeConflict(in)
       THEN Fails("FriendAttribute", "create", <<>>,
                  UniqueViolation("friend_attributes_friend_id_key_key"))
       ELSE /\ Inserted
            /\ friend_attributes' =
                    friend_attributes \cup {FriendAttributeRow(nextId, in, clock)}
            /\ UNCHANGED <<users, friends, groups, friend_groups,
                           friend_relationships, user_friend_relationships>>
            /\ last' = Call("FriendAttribute", "create", <<>>,
                            Ok(FriendAttributeRow(nextId, in, clock)))

\* ON CONFLICT (friend_id, key) DO UPDATE
\* SET value = EXCLUDED.value, value_type = EXCLUDED.value_type
UpsertSet_keep(a, in) == a
UpsertSet_restamp(a, in) ==
    [a EXCEPT !.value = in.value, !.value_type = ValueTypeOrText(in.value_type),
              !.created_at = clock]
UpsertSet(a, in) ==
    [a EXCEPT !.value = in.value, !.value_type = ValueTypeOrText(in.value_type)]

FriendAttributeUpsert_insert_only(in) ==
    /\ UNCHANGED updates
    /\ IF in.friend_id \notin IdsOf(friends)
       THEN Fails("FriendAttribute", "upsert", <<in.friend_id, in.key>>,
                  ForeignKeyViolation("friend_attributes_friend_id_fkey"))
       ELSE IF AttributeConflict(in)
       THEN Fails("FriendAttribute", "upsert", <<in.friend_id, in.key>>,
                  UniqueViolation("friend_attributes_friend_id_key_key"))
       ELSE /\ Inserted
            /\ friend_attributes' =
                    friend_attributes \cup {FriendAttributeRow(nextId, in, clock)}
            /\ UNCHANGED <<users, friends, groups, friend_groups,
                           friend_relationships, user_friend_relationships>>
            /\ last' = Call("FriendAttribute", "upsert", <<in.friend_id, in.key>>,
                            Ok(FriendAttributeRow(nextId, in, clock)))

FriendAttributeUpsert(in) ==
    /\ UNCHANGED updates
    /\ IF in.friend_id \notin IdsOf(friends)
       THEN Fails("FriendAttribute", "upsert", <<in.friend_id, in.key>>,
                  ForeignKeyViolation("friend_attributes_friend_id_fkey"))
       ELSE IF AttributeConflict(in)
       THEN \E old \in ByFriendAndKey(in.friend_id, in.key) :
            /\ friend_attributes' = (friend_attributes \ {old}) \cup {UpsertSet(old, in)}
            /\ UNCHANGED <<users, friends, groups, friend_groups, friend_relationships,
                           user_friend_relationships, nextId, clock, inserts>>
            /\ last' = Call("FriendAttribute", "upsert", <<in.friend_id, in.key>>,
                            Ok(UpsertSet(old, in)))
       ELSE /\ Inserted
            /\ friend_attributes' =
                    friend_attributes \cup {FriendAttributeRow(nextId, in, clock)}
            /\ UNCHANGED <<users, friends, groups, friend_groups,
                           friend_relationships, user_friend_relationships>>
            /\ last' = Call("FriendAttribute", "upsert", <<in.friend_id, in.key>>,
                            Ok(FriendAttributeRow(nextId, in, clock)))

FriendAttributeSet(a, in) ==
    [a EXCEPT !.value = COALESCE(in.value, @),
              !.value_type = COALESCE(in.value_type, @)]

FriendAttributeUpdate(id, in) ==
    /\ CountUpdate
    /\ IF ById(friend_attributes, id) = {}
       THEN Misses("FriendAttribute", "update", <<id>>)
       ELSE \E old \in ById(friend_attributes, id) :
            /\ friend_attributes' =
                    (friend_attributes \ {old}) \cup {FriendAttributeSet(old, in)}
            /\ UNCHANGED <<users, friends, groups, friend_groups,
                           friend_relationships, user_friend_relationships,
                           nextId, clock, inserts>>
            /\ last' = Call("FriendAttribute", "update", <<id>>,
                            Ok(FriendAttributeSet(old, in)))

FriendAttributeDelete(id) ==
    /\ friend_attributes' = friend_attributes \ ById(friend_attributes, id)
    /\ UNCHANGED <<users, friends, groups, friend_groups, friend_relationships,
                   user_friend_relationships, nextId, clock, inserts, updates>>
    /\ last' = Call("FriendAttribute", "delete", <<id>>,
                    Ok(Deleted(friend_attributes, id)))

\* ----------------------------------------- FriendRelationshipRepository
CreateFriendRelationshipInputs ==
    [user_id : IdsOf(users), friend_a_id : IdsOf(friends), friend_b_id : IdsOf(friends),
     a_to_b : One, b_to_a : Opt(One)]
    \cup [user_id : {NoSuchId}, friend_a_id : IdsOf(friends),
          friend_b_id : IdsOf(friends), a_to_b : One, b_to_a : {NULL}]
    \cup [user_id : IdsOf(users), friend_a_id : Ref(friends),
          friend_b_id : {NoSuchId}, a_to_b : One, b_to_a : {NULL}]
    \cup [user_id : IdsOf(users), friend_a_id : {NoSuchId},
          friend_b_id : IdsOf(friends), a_to_b : One, b_to_a : {NULL}]
UpdateFriendRelationshipInputs == Sent([a_to_b : Opt({2}), b_to_a : Opt({2})])

FriendRelationshipFindById(id) == Found(ById(friend_relationships, id))

\* SELECT ... FROM friend_relationships
\* WHERE friend_a_id = $1 OR friend_b_id = $1 ORDER BY created_at DESC
FriendRelationshipListByFriend(friend_id) ==
    Listed(OrderByDesc(SetToBag({r \in friend_relationships :
                                    r.friend_a_id = friend_id \/ r.friend_b_id = friend_id}),
                       "created_at"))

\* WHERE (friend_a_id = $1 AND friend_b_id = $2)
\*    OR (friend_a_id = $2 AND friend_b_id = $1)
BetweenRows(friend_a_id, friend_b_id) ==
    {r \in friend_relationships :
        \/ (r.friend_a_id = friend_a_id /\ r.friend_b_id = friend_b_id)
        \/ (r.friend_a_id = friend_b_id /\ r.friend_b_id = friend_a_id)}

FindBetween(friend_a_id, friend_b_id) == Found(BetweenRows(friend_a_id, friend_b_id))

FriendRelationshipRow(id, in, t) ==
    [id |-> id, user_id |-> in.user_id, friend_a_id |-> in.friend_a_id,
     friend_b_id |-> in.friend_b_id, a_to_b |-> in.a_to_b, b_to_a |-> in.b_to_a,
     created_at |-> t, updated_at |-> t]

FriendRelationshipCreate(in) ==
    /\ UNCHANGED updates
    /\ IF \/ in.user_id \notin IdsOf(users)
          \/ in.friend_a_id \notin IdsOf(friends)
          \/ in.friend_b_id \notin IdsOf(friends)
       THEN Fails("FriendRelationship", "create", <<>>,
                  ForeignKeyViolation("friend_relationships_fkey"))
       ELSE /\ Inserted
            /\ friend_relationships' =
                    friend_relationships \cup {FriendRelationshipRow(nextId, in, clock)}
            /\ UNCHANGED <<users, friends, groups, friend_groups, friend_attributes,
                           user_friend_relationships>>
            /\ last' = Call("FriendRelationship", "create", <<>>,
                            Ok(FriendRelationshipRow(nextId, in, clock)))

FriendRelationshipSet_swapped(r, in) ==
    [r EXCEPT !.a_to_b = COALESCE(in.a_to_b, @),
              !.b_to_a = COALESCE(in.b_to_a, @),
              !.friend_a_id = r.friend_b_id,
              !.friend_b_id = r.friend_a_id]

FriendRelationshipSet(r, in) ==
    [r EXCEPT !.a_to_b = COALESCE(in.a_to_b, @),
              !.b_to_a = COALESCE(in.b_to_a, @)]

FriendRelationshipUpdate(id, in) ==
    /\ CountUpdate
    /\ IF ById(friend_relationships, id) = {}
       THEN Misses("FriendRelationship", "update", <<id>>)
       ELSE \E old \in ById(friend_relationships, id) :
            /\ friend_relationships' =
                    (friend_relationships \ {old}) \cup {FriendRelationshipSet(old, in)}
            /\ UNCHANGED <<users, friends, groups, friend_groups, friend_attributes,
                           user_friend_relationships, nextId, clock, inserts>>
            /\ last' = Call("FriendRelationship", "update", <<id>>,
                            Ok(FriendRelationshipSet(old, in)))

FriendRelationshipDelete(id) ==
    /\ friend_relationships' = friend_relationships \ ById(friend_relationships, id)
    /\ UNCHANGED <<users, friends, groups, friend_groups, friend_attributes,
                   user_friend_relationships, nextId, clock, inserts, updates>>
    /\ last' = Call("FriendRelationship", "delete", <<id>>,
                    Ok(Deleted(friend_relationships, id)))

\* ------------------------------------- UserFriendRelationshipRepository
CreateUserFriendRelationshipInputs ==
    [friend_id : IdsOf(friends), relationship_type : Str]
    \cup [friend_id : {NoSuchId}, relationship_type : One]
UpdateUserFriendRelationshipInputs == Sent([relationship_type : Opt(Str)])

UserFriendRelationshipFindById(id) == Found(ById(user_friend_relationships, id))

\* SELECT ... FROM user_friend_relationships
\* WHERE friend_id = $1 ORDER BY relationship_type ASC
UserFriendRelationshipListByFriend(friend_id) ==
    Listed(OrderBy(SetToBag({r \in user_friend_relationships : r.friend_id = friend_id}),
                   "relationship_type"))

UserFriendRelationshipRow(id, in, t) ==
    [id |-> id, friend_id |-> in.friend_id, relationship_type |-> in.relationship_type,
     created_at |-> t, updated_at |-> t]

UserFriendRelationshipCreate_unique(in) ==
    /\ UNCHANGED updates
    /\ IF in.friend_id \notin IdsOf(friends)
       THEN Fails("UserFriendRelationship", "create", <<>>,
                  ForeignKeyViolation("user_friend_relationships_friend_id_fkey"))
       ELSE IF \E r \in user_friend_relationships :
                   r.friend_id = in.friend_id
                       /\ r.relationship_type = in.relationship_type
       THEN Fails("UserFriendRelationship", "create", <<>>,
                  UniqueViolation("user_friend_relationships_key"))
       ELSE /\ Inserted
            /\ user_friend_relationships' =
                    user_friend_relationships
                        \cup {UserFriendRelationshipRow(nextId, in, clock)}
            /\ UNCHANGED <<users, friends, groups, friend_groups, friend_attributes,
                           friend_relationships>>
            /\ last' = Call("UserFriendRelationship", "create", <<>>,
                            Ok(UserFriendRelationshipRow(nextId, in, clock)))

UserFriendRelationshipCreate(in) ==
    /\ UNCHANGED updates
    /\ IF in.friend_id \notin IdsOf(friends)
       THEN Fails("UserFriendRelationship", "create", <<>>,
                  ForeignKeyViolation("user_friend_relationships_friend_id_fkey"))
       ELSE /\ Inserted
            /\ user_friend_relationships' =
                    user_friend_relationships
                        \cup {UserFriendRelationshipRow(nextId, in, clock)}
            /\ UNCHANGED <<users, friends, groups, friend_groups, friend_attributes,
                           friend_relationships>>
            /\ last' = Call("UserFriendRelationship", "create", <<>>,
                            Ok(UserFriendRelationshipRow(nextId, in, clock)))

UserFriendRelationshipSet(r, in) ==
    [r EXCEPT !.relationship_type = COALESCE(in.relationship_type, @)]

UserFriendRelationshipUpdate(id, in) ==
    /\ CountUpdate
    /\ IF ById(user_friend_relationships, id) = {}
       THEN Misses("UserFriendRelationship", "update", <<id>>)
       ELSE \E old \in ById(user_friend_relationships, id) :
            /\ user_friend_relationships' =
                    (user_friend_relationships \ {old})
                        \cup {UserFriendRelationshipSet(old, in)}
            /\ UNCHANGED <<users, friends, groups, friend_groups, friend_attributes,
                           friend_relationships, nextId, clock, inserts>>
            /\ last' = Call("UserFriendRelationship", "update", <<id>>,
                            Ok(UserFriendRelationshipSet(old, in)))

UserFriendRelationshipDelete(id) ==
    /\ user_friend_relationships' =
            user_friend_relationships \ ById(user_friend_relationships, id)
    /\ UNCHANGED <<users, friends, groups, friend_groups, friend_attributes,
                   friend_relationships, nextId, clock, inserts, updates>>
    /\ last' = Call("UserFriendRelationship", "delete", <<id>>,
                    Ok(Deleted(user_friend_relationships, id)))

\* ------------------------------------------- Repository<T>::find_by_id
\* the trait method, dispatched on the repository that implements it
FindById(repo, id) ==
    CASE repo = "User" -> UserFindById(id)
      [] repo = "Friend" -> FriendFindById(id)
      [] repo = "Group" -> GroupFindById(id)
      [] repo = "FriendAttribute" -> FriendAttributeFindById(id)
      [] repo = "FriendRelationship" -> FriendRelationshipFindById(id)
      [] repo = "UserFriendRelationship" -> UserFriendRelationshipFindById(id)

\* ------------------------------------------------------ the state machine
\* no call made yet
NoCall == [repo |-> "none", op |-> "none", id |-> <<>>, res |-> OkNone, repeat |-> FALSE]

\* the callers that share the pool, each with at most one call in flight
Clients == {"c1", "c2"}

\* a caller between calls; a call whose statement has not run yet; the same
\* call once its statement ran and the Result came back.  overlap holds the
\* callers whose present call was in flight while this one was.
Idle == [state |-> "idle", op |-> "none", in |-> {}, res |-> OkNone, overlap |-> {}]
Pending(op, in, others) ==
    [state |-> "sent", op |-> op, in |-> {in}, res |-> OkNone, overlap |-> others]
Done(call, res) == [call EXCEPT !.state = "done", !.res = res]

\* the store after the migrations: every table empty
InitEmpty ==
    /\ users = {}
    /\ friends = {}
    /\ groups = {}
    /\ friend_groups = EmptyBag
    /\ friend_attributes = {}
    /\ friend_relationships = {}
    /\ user_friend_relationships = {}
    /\ nextId = 1
    /\ clock = 0

\* the store after a user has signed up and entered two friends, a group
\* with one of them in it, an attribute, a relationship between the two and
\* how the user knows the first; every insert of a row with an identifier
\* takes one identifier and one tick
Owner == [first_name |-> 1, last_name |-> 1, email |-> 1, password_hash |-> 1]
Ava == [user_id |-> 1, first_name |-> 1, last_name |-> NULL, date_of_birth |-> NULL,
        likes |-> NULL, dislikes |-> NULL, notes |-> NULL]
Ben == [user_id |-> 1, first_name |-> 2, last_name |-> 1, date_of_birth |-> 1,
        likes |-> 1, dislikes |-> 1, notes |-> 1]
Work == [user_id |-> 1, name |-> 1, description |-> NULL]
Shoe == [friend_id |-> 2, key |-> 1, value |-> 1, value_type |-> NULL]
Sibling == [user_id |-> 1, friend_a_id |-> 2, friend_b_id |-> 3, a_to_b |-> 1,
            b_to_a |-> NULL]
Coworker == [friend_id |-> 2, relationship_type |-> 1]

InitPopulated ==
    /\ users = {UserRow(1, Owner, 0)}
    /\ friends = {FriendRow(2, Ava, 1), FriendRow(3, Ben, 2)}
    /\ groups = {GroupRow(4, Work, 3)}
    /\ friend_groups = SetToBag({<<2, 4>>})
    /\ friend_attributes = {FriendAttributeRow(5, Shoe, 4)}
    /\ friend_relationships = {FriendRelationshipRow(6, Sibling, 5)}
    /\ user_friend_relationships = {UserFriendRelationshipRow(7, Coworker, 6)}
    /\ nextId = 8
    /\ clock = 7

Init ==
    /\ InitEmpty \/ InitPopulated
    /\ inserts = 0
    /\ updates = 0
    /\ last = NoCall
    /\ calls = [c \in Clients |-> Idle]

\* a run is a caller working through one repository, and within the friend
\* repository either through the rows or through the group memberships
Membership == {"add_to_group", "remove_from_group"}
Uses(repo) == last.repo \in {"none", repo} /\ last.op \notin Membership
UsesMembership == last.repo = "none" \/ last.op \in Membership

Next ==
    \/ /\ Uses("User")
       /\ UNCHANGED calls
       /\ \E in \in CreateUserInputs : UserCreate(in)
    \/ /\ Uses("User")
       /\ UNCHANGED calls
       /\ \E id \in Ref(users), in \in UpdateUserInputs : UserUpdate(id, in)
    \/ /\ Uses("User")
       /\ UNCHANGED calls
       /\ \E id \in Ref(users) : UserDelete(id)
    \/ /\ Uses("Friend")
       /\ UNCHANGED calls
       /\ \E in \in CreateFriendInputs : FriendCreate(in)
    \/ /\ Uses("Friend")
       /\ UNCHANGED calls
       /\ \E id \in Ref(friends), in \in UpdateFriendInputs : FriendUpdate(id, in)
    \/ /\ Uses("Friend")
       /\ UNCHANGED calls
       /\ \E id \in Ref(friends) : FriendDelete(id)
    \/ /\ UsesMembership
       /\ UNCHANGED calls
       /\ \E f \in Ref(friends), g \in Ref(groups) : AddToGroup(f, g)
    \/ /\ UsesMembership
       /\ UNCHANGED calls
       /\ \E f \in Ref(friends), g \in Ref(groups) : RemoveFromGroup(f, g)
    \/ /\ Uses("Group")
       /\ UNCHANGED calls
       /\ \E in \in CreateGroupInputs : GroupCreate(in)
    \/ /\ Uses("Group")
       /\ UNCHANGED calls
       /\ \E id \in Ref(groups), in \in UpdateGroupInputs : GroupUpdate(id, in)
    \/ /\ Uses("Group")
       /\ UNCHANGED calls
       /\ \E id \in Ref(groups) : GroupDelete(id)
    \/ /\ Uses("FriendAttribute")
       /\ UNCHANGED calls
       /\ \E in \in CreateFriendAttributeInputs : FriendAttributeCreate(in)
    \/ /\ Uses("FriendAttribute")
       /\ UNCHANGED calls
       /\ \E in \in CreateFriendAttributeInputs : FriendAttributeUpsert(in)
    \/ /\ Uses("FriendAttribute")
       /\ UNCHANGED calls
       /\ \E id \in Ref(friend_attributes), in \in UpdateFriendAttributeInputs :
               FriendAttributeUpdate(id, in)
    \/ /\ Uses("FriendAttribute")
       /\ UNCHANGED calls
       /\ \E id \in Ref(friend_attributes) : FriendAttributeDelete(id)
    \/ /\ Uses("FriendRelationship")
       /\ UNCHANGED calls
       /\ \E in \in CreateFriendRelationshipInputs : FriendRelationshipCreate(in)
    \/ /\ Uses("FriendRelationship")
       /\ UNCHANGED calls
       /\ \E id \in Ref(friend_relationships), in \in UpdateFriendRelationshipInputs :
               FriendRelationshipUpdate(id, in)
    \/ /\ Uses("FriendRelationship")
       /\ UNCHANGED calls
       /\ \E id \in Ref(friend_relationships) : FriendRelationshipDelete(id)
    \/ /\ Uses("UserFriendRelationship")
       /\ UNCHANGED calls
       /\ \E in \in CreateUserFriendRelationshipInputs : UserFriendRelationshipCreate(in)
    \/ /\ Uses("UserFriendRelationship")
       /\ UNCHANGED calls
       /\ \E id \in Ref(user_friend_relationships), in \in UpdateUserFriendRelationshipInputs :
               UserFriendRelationshipUpdate(id, in)
    \/ /\ Uses("UserFriendRelationship")
       /\ UNCHANGED calls
       /\ \E id \in Ref(user_friend_relationships) : UserFriendRelationshipDelete(id)

Spec == Init /\ [][Next]_vars

\* ------------------------------------------------------------ memberships
\* the populated store with a second group of the same owner
Home == [user_id |-> 1, name |-> 1, description |-> 1]

InitMemberships ==
    /\ users = {UserRow(1, Owner, 0)}
    /\ friends = {FriendRow(2, Ava, 1), FriendRow(3, Ben, 2)}
    /\ groups = {GroupRow(4, Work, 3), GroupRow(8, Home, 7)}
    /\ friend_groups = SetToBag({<<2, 4>>})
    /\ friend_attributes = {FriendAttributeRow(5, Shoe, 4)}
    /\ friend_relationships = {FriendRelationshipRow(6, Sibling, 5)}
    /\ user_friend_relationships = {UserFriendRelationshipRow(7, Coworker, 6)}
    /\ nextId = 9
    /\ clock = 8
    /\ inserts = 0
    /\ updates = 0
    /\ last = NoCall
    /\ calls = [c \in Clients |-> Idle]

\* a caller that puts friends into groups and takes them out, renames and
\* deletes friends and groups
NextMemberships ==
    \/ /\ UNCHANGED calls
       /\ \E f \in Ref(friends), g \in Ref(groups) : AddToGroup(f, g)
    \/ /\ UNCHANGED calls
       /\ \E f \in Ref(friends), g \in Ref(groups) : RemoveFromGroup(f, g)
    \/ /\ UNCHANGED calls
       /\ \E id \in Ref(friends), in \in UpdateFriendInputs : FriendUpdate(id, in)
    \/ /\ UNCHANGED calls
       /\ \E id \in Ref(groups), in \in UpdateGroupInputs : GroupUpdate(id, in)
    \/ /\ UNCHANGED calls
       /\ \E id \in Ref(friends) : FriendDelete(id)
    \/ /\ UNCHANGED calls
       /\ \E id \in Ref(groups) : GroupDelete(id)

SpecMemberships == InitMemberships /\ [][NextMemberships]_vars

\* ------------------------------------------------------------ store faults
\* the vendor codes a database error carries: the two the classifier names
\* and one it does not (not_null_violation)
VendorCodes ==
    {UniqueViolationCode, ForeignKeyViolationCode, ForeignKeyViolationCode - 1}
\* the message of a database error the schema's constraints do not raise
VendorMessage == "terminating connection"

\* the pool has no connection to hand out; the connection broke
PoolTimedOut == [variant |-> "PoolTimedOut", code |-> NULL, message |-> "pool timed out"]
Io == [variant |-> "Io", code |-> NULL, message |-> "connection lost"]

\* the sqlx::Error values from_sqlx is given: no row, a database error with
\* a vendor code or without one, and the errors of the pool and the socket
RawErrors ==
    {RowNotFound, PoolTimedOut, Io}
        \cup {DatabaseError(c, VendorMessage) : c \in Opt(VendorCodes)}

\* the table a repository works on
Table(repo) ==
    CASE repo = "User" -> users
      [] repo = "Friend" -> friends
      [] repo = "Group" -> groups
      [] repo = "FriendAttribute" -> friend_attributes
      [] repo = "FriendRelationship" -> friend_relationships
      [] repo = "UserFriendRelationship" -> user_friend_relationships

Repositories ==
    {"User", "Friend", "Group", "FriendAttribute", "FriendRelationship",
     "UserFriendRelationship"}

\* the methods of Repository<T>, each of one statement, and the key of a call
Methods == {"find_by_id", "create", "update", "delete"}
Keys(repo, op) ==
    IF op = "create" THEN {<<>>} ELSE {<<id>> : id \in Ref(Table(repo))}

\* the statement of a call raises raw instead of running:
\* .await.map_err(RepositoryError::from_sqlx)? returns the classified error
StoreFault_swallowed(repo, op, id, raw) ==
    /\ IF op = "update" THEN CountUpdate ELSE UNCHANGED updates
    /\ Unchanged
    /\ last' = Call(repo, op, id, OkNone)
StoreFault(repo, op, id, raw) ==
    /\ IF op = "update" THEN CountUpdate ELSE UNCHANGED updates
    /\ Fails(repo, op, id, raw)

\* what RepositoryContext::transaction returns when pool.begin() succeeds
TransactionHandle == [transaction |-> "open"]

\* self.pool.begin().await.map_err(RepositoryError::from_sqlx)
Transaction_unclassified(raw) ==
    /\ UNCHANGED updates
    /\ Unchanged
    /\ last' = Call("Context", "transaction", <<>>,
                    Err([kind |-> raw.variant, message |-> raw.message, source |-> {}]))
Transaction(raw) ==
    /\ UNCHANGED updates
    /\ Fails("Context", "transaction", <<>>, raw)
Begin ==
    /\ UNCHANGED updates
    /\ Unchanged
    /\ last' = Call("Context", "transaction", <<>>, Ok(TransactionHandle))

\* a caller goes on while its calls succeed and stops at the first error:
\* the calls of Next, and any call whose statement the store fails
Running == last.res.ok
NextFaults ==
    \/ /\ Running
       /\ Next
    \/ /\ Running
       /\ UNCHANGED calls
       /\ \E repo \in Repositories :
              /\ Uses(repo)
              /\ \E op \in Methods : \E id \in Keys(repo, op), raw \in RawErrors :
                     StoreFault(repo, op, id, raw)
    \/ /\ Running
       /\ UNCHANGED calls
       /\ UsesMembership
       /\ \E op \in Membership : \E f \in Ref(friends), g \in Ref(groups), raw \in RawErrors :
              StoreFault("Friend", op, <<f, g>>, raw)
    \/ /\ Running
       /\ UNCHANGED calls
       /\ Uses("Context")
       /\ Begin
    \/ /\ Running
       /\ UNCHANGED calls
       /\ Uses("Context")
       /\ \E raw \in RawErrors : Transaction(raw)

SpecFaults == Init /\ [][NextFaults]_vars

\* ------------------------------------------------------- concurrent calls
\* what concurrent callers pass to upsert, add_to_group and remove_from_group
MembershipInputs == [friend_id : Ref(friends), group_id : Ref(groups)]

\* a caller calls a method: the call waits for a connection and for the store
Issue(c, op, in) ==
    /\ calls[c].state = "idle"
    /\ LET others == {d \in Clients \ {c} : calls[d].state = "sent"}
       IN  calls' = [d \in Clients |->
                        IF d = c THEN Pending(op, in, others)
                        ELSE IF d \in others
                            THEN [calls[d] EXCEPT !.overlap = @ \cup {c}]
                        ELSE calls[d]]
    /\ Unchanged
    /\ UNCHANGED <<updates, last>>

\* the store runs the one statement of a call in flight, atomically, and the
\* Result goes back to the caller
Run(c) ==
    /\ calls[c].state = "sent"
    /\ \E in \in calls[c].in :
           CASE calls[c].op = "upsert" -> FriendAttributeUpsert(in)
             [] calls[c].op = "add_to_group" -> AddToGroup(in.friend_id, in.group_id)
             [] calls[c].op = "remove_from_group" ->
                    RemoveFromGroup(in.friend_id, in.group_id)
    /\ calls' = [calls EXCEPT ![c] = Done(@, last'.res)]

\* the caller is done with the Result
Finish(c) ==
    /\ calls[c].state = "done"
    /\ calls' = [d \in Clients |->
                    IF d = c THEN Idle ELSE [calls[d] EXCEPT !.overlap = @ \ {c}]]
    /\ Unchanged
    /\ UNCHANGED <<updates, last>>

\* the callers of a run all work on attributes or all on memberships
Among(ops) ==
    /\ last.op \in ops \cup {"none"}
    /\ \A c \in Clients : calls[c].op \in ops \cup {"none"}

NextConcurrent ==
    \/ /\ Among({"upsert"})
       /\ \E c \in Clients, in \in CreateFriendAttributeInputs : Issue(c, "upsert", in)
    \/ /\ Among(Membership)
       /\ \E c \in Clients, in \in MembershipInputs : Issue(c, "add_to_group", in)
    \/ /\ Among(Membership)
       /\ \E c \in Clients, in \in MembershipInputs : Issue(c, "remove_from_group", in)
    \/ \E c \in Clients : Run(c)
    \/ \E c \in Clients : Finish(c)

SpecConcurrent == Init /\ [][NextConcurrent]_vars

\* ------------------------------------------------------------ properties
\* the step is a call of method op of repository repo
Did(repo, op) == last'.repo = repo /\ last'.op = op

\* of the identifiers ids, the one the call of the step was given
Given(ids) == {id \in ids : last'.id = <<id>>}

\* the fields of an update input are columns of the row: new is old merged
\* with in by presence
Merged(old, new, in) ==
    \A f \in DOMAIN in : new[f] = IF in[f] # NULL THEN in[f] ELSE old[f]

\* an update of the existing row id with input in succeeded, the row it
\* returned is the one stored under id, and it is the old row merged with in
UpdateMerges(table, tableAfter, id, in) ==
    /\ last'.res.ok
    /\ last'.res.val = {r \in tableAfter : r.id = id}
    /\ \E old \in ById(table, id), new \in last'.res.val : Merged(old, new, in)

\* an update succeeded, returned the row as it was and wrote nothing
UpdateKeeps(table, id) ==
    /\ last'.res.ok
    /\ last'.res.val = ById(table, id)
    /\ db' = db

\* an update failed with NotFound and wrote nothing, and find_by_id of the
\* identifier succeeds with None
UpdateMisses(repo, id) ==
    /\ ~last'.res.ok
    /\ \E e \in last'.res.err : e.kind = "NotFound"
    /\ db' = db
    /\ FindById(repo, id) = {[ok |-> TRUE, val |-> {}, err |-> {}]}

\* a delete reported whether the row was there, wrote nothing when it was
\* not, and afterwards a find by the identifier returns None
DeleteReports(table, tableAfter, id) ==
    /\ last'.res.ok
    /\ last'.res.val = {\E r \in table : r.id = id}
    /\ (~ \E r \in table : r.id = id) => db' = db
    /\ Found({r \in tableAfter : r.id = id}) = {[ok |-> TRUE, val |-> {}, err |-> {}]}

\* C1: after a create the store accepted, in any of the six repositories,
\* find_by_id of the returned identifier returns exactly the entity create
\* returned (same identifier, fields and timestamps)
C1_CreateThenFindById ==
    (last.op = "create" /\ last.res.ok) =>
        /\ Cardinality(last.res.val) = 1
        /\ \A created \in last.res.val :
                FindById(last.repo, created.id)
                    = {[ok |-> TRUE, val |-> {created}, err |-> {}]}

\* an attribute created without a value_type, found with the default "text"
C1_Witness ==
    /\ last.repo = "FriendAttribute"
    /\ last.op = "create"
    /\ last.res.ok
    /\ \E created \in last.res.val :
            /\ created.value_type = Text
            /\ \E found \in FriendAttributeFindById(created.id) :
                    found.val = {created}

C3_EmptyUpdateChangesNothing ==
    [][/\ Did("User", "update") =>
            \A id \in Given(IdsOf(users)), in \in UpdateUserInputs :
                (Present(in) = 0 /\ UserUpdate(id, in)) => UpdateKeeps(users, id)
       /\ Did("Friend", "update") =>
            \A id \in Given(IdsOf(friends)), in \in UpdateFriendInputs :
                (Present(in) = 0 /\ FriendUpdate(id, in)) => UpdateKeeps(friends, id)
       /\ Did("Group", "update") =>
            \A id \in Given(IdsOf(groups)), in \in UpdateGroupInputs :
                (Present(in) = 0 /\ GroupUpdate(id, in)) => UpdateKeeps(groups, id)
       /\ Did("FriendAttribute", "update") =>
            \A id \in Given(IdsOf(friend_attributes)),
               in \in UpdateFriendAttributeInputs :
                (Present(in) = 0 /\ FriendAttributeUpdate(id, in))
                    => UpdateKeeps(friend_attributes, id)
       /\ Did("FriendRelationship", "update") =>
            \A id \in Given(IdsOf(friend_relationships)),
               in \in UpdateFriendRelationshipInputs :
                (Present(in) = 0 /\ FriendRelationshipUpdate(id, in))
                    => UpdateKeeps(friend_relationships, id)
       /\ Did("UserFriendRelationship", "update") =>
            \A id \in Given(IdsOf(user_friend_relationships)),
               in \in UpdateUserFriendRelationshipInputs :
                (Present(in) = 0 /\ UserFriendRelationshipUpdate(id, in))
                    => UpdateKeeps(user_friend_relationships, id)
      ]_vars

\* an update of Ben, who has every optional field, succeeded and returned Ben
\* as the populated store began with him
C3_Witness ==
    /\ last.repo = "Friend"
    /\ last.op = "update"
    /\ last.id = <<3>>
    /\ last.res.ok
    /\ last.res.val = {FriendRow(3, Ben, 2)}
    /\ friends = {FriendRow(2, Ava, 1), FriendRow(3, Ben, 2)}

\* C4: in every repository an update of an identifier that matches no row
\* fails with NotFound whatever the input, changes no table, and find_by_id
\* of the same identifier returns None, a success
C4_UpdateMissingIsNotFound ==
    [][/\ Did("User", "update") =>
            \A id \in Given(Ref(users) \ IdsOf(users)), in \in UpdateUserInputs :
                UserUpdate(id, in) => UpdateMisses("User", id)
       /\ Did("Friend", "update") =>
            \A id \in Given(Ref(friends) \ IdsOf(friends)), in \in UpdateFriendInputs :
                FriendUpdate(id, in) => UpdateMisses("Friend", id)
       /\ Did("Group", "update") =>
            \A id \in Given(Ref(groups) \ IdsOf(groups)), in \in UpdateGroupInputs :
                GroupUpdate(id, in) => UpdateMisses("Group", id)
       /\ Did("FriendAttribute", "update") =>
            \A id \in Given(Ref(friend_attributes) \ IdsOf(friend_attributes)),
               in \in UpdateFriendAttributeInputs :
                FriendAttributeUpdate(id, in) => UpdateMisses("FriendAttribute", id)
       /\ Did("FriendRelationship", "update") =>
            \A id \in Given(Ref(friend_relationships) \ IdsOf(friend_relationships)),
               in \in UpdateFriendRelationshipInputs :
                FriendRelationshipUpdate(id, in) => UpdateMisses("FriendRelationship", id)
       /\ Did("UserFriendRelationship", "update") =>
            \A id \in Given(Ref(user_friend_relationships) \ IdsOf(user_friend_relationships)),
               in \in UpdateUserFriendRelationshipInputs :
                UserFriendRelationshipUpdate(id, in)
                    => UpdateMisses("UserFriendRelationship", id)
      ]_vars

C4_Witness ==
    /\ last.repo = "FriendAttribute"
    /\ last.op = "update"
    /\ last.id = <<NoSuchId>>
    /\ ~last.res.ok
    /\ \E e \in last.res.err : e.kind = "NotFound"
    /\ friend_attributes = {FriendAttributeRow(5, Shoe, 4)}
    /\ \A found \in FriendAttributeFindById(NoSuchId) : found.ok /\ found.val = {}

\* C5: in every repository delete returns true exactly when a row with the
\* identifier was stored before the call; when none was it returns false, not
\* an error, and changes no table; after it no row carries the identifier, so
\* find_by_id returns None
C5_DeleteReportsExistence ==
    [][/\ Did("User", "delete") =>
            \A id \in Given(Ref(users)) :
                UserDelete(id) => DeleteReports(users, users', id)
       /\ Did("Friend", "delete") =>
            \A id \in Given(Ref(friends)) :
                FriendDelete(id) => DeleteReports(friends, friends', id)
       /\ Did("Group", "delete") =>
            \A id \in Given(Ref(groups)) :
                GroupDelete(id) => DeleteReports(groups, groups', id)
       /\ Did("FriendAttribute", "delete") =>
            \A id \in Given(Ref(friend_attributes)) :
                FriendAttributeDelete(id)
                    => DeleteReports(friend_attributes, friend_attributes', id)
       /\ Did("FriendRelationship", "delete") =>
            \A id \in Given(Ref(friend_relationships)) :
                FriendRelationshipDelete(id)
                    => DeleteReports(friend_relationships, friend_relationships', id)
       /\ Did("UserFriendRelationship", "delete") =>
            \A id \in Given(Ref(user_friend_relationships)) :
                UserFriendRelationshipDelete(id)
                    => DeleteReports(user_friend_relationships, user_friend_relationships', id)
      ]_vars

\* Ava deleted (true): she is gone, find_by_id of her identifier returns None
\* and Ben is still there
C5_Witness ==
    /\ last.repo = "Friend"
    /\ last.op = "delete"
    /\ last.id = <<2>>
    /\ last.res.val = {TRUE}
    /\ \A found \in FriendFindById(2) : found.ok /\ found.val = {}
    /\ friends = {FriendRow(3, Ben, 2)}

\* C6: add_to_group called again with the pair of the call before it, which
\* succeeded, succeeds, changes no table, and leaves exactly one membership
\* row for the pair
C6_AddToGroupIdempotent ==
    [][(Did("Friend", "add_to_group") /\ last'.repeat) =>
            \A f \in Ref(friends), g \in Ref(groups) :
                AddToGroup(f, g) =>
                    /\ last'.res.ok
                    /\ db' = db
                    /\ CopiesIn(<<f, g>>, friend_groups') = 1
      ]_vars

\* Ben added to Work twice in a row
C6_Witness ==
    /\ last.op = "add_to_group"
    /\ last.id = <<3, 4>>
    /\ last.repeat
    /\ last.res.ok
    /\ CopiesIn(<<3, 4>>, friend_groups) = 1

\* C7: for any two friends, find_between(A, B) and find_between(B, A) return
\* the same result: None when no relationship row is stored for the pair in
\* either order, otherwise the stored row of the pair
C7_FindBetweenSameRow ==
    \A a, b \in IdsOf(friends) :
        \E o \in fetch_optional(BetweenRows(a, b)) :
            /\ \A found \in FindBetween(a, b) : found.val = o
            /\ \A found \in FindBetween(b, a) : found.val = o

\* what does hold of find_between: both orders of the arguments select the
\* same rows, so the calls have the same possible results, and where the
\* pair has at most one row both return it (or None)
C7_FindBetweenSameRows ==
    \A a, b \in IdsOf(friends) :
        /\ FindBetween(a, b) = FindBetween(b, a)
        /\ Cardinality(BetweenRows(a, b)) <= 1
                => Cardinality(FindBetween(a, b)) = 1

\* two rows stored for one unordered pair, one in each order, each a
\* possible result of find_between with either order of the arguments
C7_Witness ==
    \E r, q \in friend_relationships :
        /\ r.id # q.id
        /\ r.friend_a_id = q.friend_b_id
        /\ r.friend_b_id = q.friend_a_id
        /\ r.friend_a_id # r.friend_b_id
        /\ \E found \in FindBetween(r.friend_a_id, r.friend_b_id) : found.val = {r}
        /\ \E found \in FindBetween(r.friend_b_id, r.friend_a_id) : found.val = {q}

\* C8: an upsert that repeats the (friend, key) pair of the upsert before it,
\* which succeeded, succeeds and leaves exactly one row for the pair: the row
\* it returns, holding the value it sent and the value_type it sent ("text"
\* when it sent none)
C8_UpsertTwiceKeepsSecond ==
    [][(Did("FriendAttribute", "upsert") /\ last'.repeat) =>
            \A in \in CreateFriendAttributeInputs :
                FriendAttributeUpsert(in) =>
                    /\ last.res.ok
                    /\ last'.res.ok
                    /\ last'.res.val = {a \in friend_attributes' :
                                            a.friend_id = in.friend_id /\ a.key = in.key}
                    /\ Cardinality(last'.res.val) = 1
                    /\ \A a \in last'.res.val :
                            /\ a.value = in.value
                            /\ a.value_type =
                                    (IF in.value_type = NULL THEN Text ELSE in.value_type)
      ]_vars

\* two upserts in a row for a pair the run inserted: one row, whose value and
\* value_type are those of an upsert that sent a value_type
C8_Witness ==
    /\ last.op = "upsert"
    /\ last.repeat
    /\ last.res.ok
    /\ inserts = 1
    /\ \E a \in last.res.val :
            /\ a.id = nextId - 1
            /\ a.value = 2
            /\ a.value_type = 1
            /\ ByFriendAndKey(a.friend_id, a.key) = {a}

\* C9: a plain create of a FriendAttribute for a (friend, key) pair that has a
\* stored row fails with Duplicate and changes no row of any table
C9_CreateDuplicateAttributeFails ==
    [][Did("FriendAttribute", "create") =>
            \A in \in CreateFriendAttributeInputs :
                (FriendAttributeCreate(in)
                    /\ \E a \in friend_attributes :
                            a.friend_id = in.friend_id /\ a.key = in.key) =>
                    /\ ~last'.res.ok
                    /\ \E e \in last'.res.err : e.kind = "Duplicate"
                    /\ db' = db
      ]_vars

C9_Witness ==
    /\ last.repo = "FriendAttribute"
    /\ last.op = "create"
    /\ ~last.res.ok
    /\ \E e \in last.res.err : e.kind = "Duplicate"
    /\ friend_attributes = {FriendAttributeRow(5, Shoe, 4)}

\* C10: in every reachable state at most one FriendAttribute row is stored
\* for any (friend, key) pair
C10_OneRowPerFriendAndKey ==
    \A a, b \in friend_attributes :
        (a.friend_id = b.friend_id /\ a.key = b.key) => a = b

\* a friend with two attributes, of different keys, after a write
C10_Witness ==
    /\ last.repo = "FriendAttribute"
    /\ last.op \in {"create", "upsert"}
    /\ last.res.ok
    /\ \E a, b \in friend_attributes :
            a.friend_id = b.friend_id /\ a.key # b.key

\* a create failed with ForeignKeyViolation and wrote nothing
ForeignKeyFails ==
    /\ ~last'.res.ok
    /\ \E e \in last'.res.err : e.kind = "ForeignKeyViolation"
    /\ db' = db
    /\ nextId' = nextId

\* C11: create of a Friend whose user_id names no user, and create of a
\* FriendRelationship whose user_id, friend_a_id or friend_b_id names no row,
\* fails with ForeignKeyViolation and inserts nothing
C11_DanglingCreateFails ==
    [][/\ Did("Friend", "create") =>
            \A in \in CreateFriendInputs :
                (FriendCreate(in) /\ ~ \E u \in users : u.id = in.user_id)
                    => ForeignKeyFails
       /\ Did("FriendRelationship", "create") =>
            \A in \in CreateFriendRelationshipInputs :
                (FriendRelationshipCreate(in)
                    /\ \/ ~ \E u \in users : u.id = in.user_id
                       \/ ~ \E f \in friends : f.id = in.friend_a_id
                       \/ ~ \E f \in friends : f.id = in.friend_b_id)
                    => ForeignKeyFails
      ]_vars

\* a relationship create that named a missing row failed, with Ava, Ben and
\* their one relationship as they were
C11_Witness ==
    /\ last.repo = "FriendRelationship"
    /\ last.op = "create"
    /\ ~last.res.ok
    /\ \E e \in last.res.err : e.kind = "ForeignKeyViolation"
    /\ friend_relationships = {FriendRelationshipRow(6, Sibling, 5)}
    /\ inserts = 0

\* the step is a call that returned what the classifier made of raw
Raised(raw) == last'.res = Err(from_sqlx(raw))

\* the kind the classifier is to give a raw error, and what the error carries
Classified(raw) ==
    CASE raw.variant = "RowNotFound" -> NotFound
      [] raw.variant = "Database" /\ raw.code = 23505 ->
            [kind |-> "Duplicate", message |-> raw.message, source |-> {}]
      [] raw.variant = "Database" /\ raw.code = 23503 ->
            [kind |-> "ForeignKeyViolation", message |-> raw.message, source |-> {}]
      [] OTHER -> [kind |-> "Database", message |-> "", source |-> {raw}]

\* C12: from_sqlx is total and deterministic: whatever raw error a statement
\* raises, the call returns exactly one error, and it is NotFound for row not
\* found, Duplicate with the vendor message for vendor code 23505,
\* ForeignKeyViolation with the vendor message for 23503, and Database
\* wrapping the raw error for another vendor code, no code, or another error
C12_FromSqlxClassifies ==
    [][~last'.res.ok =>
           \A raw \in RawErrors :
               Raised(raw) =>
                   /\ last'.res.val = {}
                   /\ last'.res.err = {Classified(raw)}
                   /\ from_sqlx(raw) = Classified(raw)
      ]_vars

\* a find_by_id on the populated store whose statement raised a database
\* error with code 23505 returned Duplicate with the vendor message
C12_Witness ==
    /\ last.op = "find_by_id"
    /\ last.res.err = {Duplicate(VendorMessage)}
    /\ users # {}

\* C13: remove_from_group(friend, group) returns true exactly when a
\* membership row of the pair existed before the call and false without
\* error otherwise; either way no membership row of the pair exists
\* afterwards and every other membership row, and every other table, is as
\* it was
C13_RemoveFromGroupReportsExistence ==
    [][Did("Friend", "remove_from_group") =>
           \A f \in Ref(friends), g \in Ref(groups) :
               RemoveFromGroup(f, g) =>
                   /\ last'.res.ok
                   /\ last'.res.val = {BagIn(<<f, g>>, friend_groups)}
                   /\ ~BagIn(<<f, g>>, friend_groups')
                   /\ \A p \in (DOMAIN friend_groups \cup DOMAIN friend_groups') \ {<<f, g>>} :
                          CopiesIn(p, friend_groups') = CopiesIn(p, friend_groups)
                   /\ <<users, friends, groups, friend_attributes,
                        friend_relationships, user_friend_relationships>>'
                        = <<users, friends, groups, friend_attributes,
                            friend_relationships, user_friend_relationships>>
      ]_vars

\* Ben was taken out of Work, where Ava still is
C13_Witness ==
    /\ last.op = "remove_from_group"
    /\ last.id = <<3, 4>>
    /\ last.res.val = {TRUE}
    /\ friend_groups = SetToBag({<<2, 4>>})

\* a call failed with Duplicate and wrote nothing
DuplicateFails ==
    /\ ~last'.res.ok
    /\ \E e \in last'.res.err : e.kind = "Duplicate"
    /\ db' = db
    /\ nextId' = nextId

\* no two users of the table hold the same email
EmailUnique(table) == \A u, v \in table : u.email = v.email => u = v

\* C14: no two users ever hold the same email: a User create, or a User
\* update that sets email, which would give two users the same email fails
\* with Duplicate and leaves the store unchanged; so find_by_email(email)
\* has one outcome, the user holding the email or None
C14_EmailUnique ==
    [][/\ EmailUnique(users) /\ EmailUnique(users')
       /\ Did("User", "create") =>
              \A in \in CreateUserInputs :
                  (UserCreate(in) /\ \E u \in users : u.email = in.email)
                      => DuplicateFails
       /\ Did("User", "update") =>
              \A id \in Given(IdsOf(users)), in \in UpdateUserInputs :
                  (UserUpdate(id, in)
                      /\ \E u \in users : u.id # id /\ u.email = in.email)
                      => DuplicateFails
       /\ \A email \in Str :
              /\ Cardinality(UserFindByEmail(email)') = 1
              /\ \A r \in UserFindByEmail(email)' :
                     /\ r.ok
                     /\ r.val = {u \in users' : u.email = email}
      ]_vars

\* with two users stored, an update that sets the email of one to the email
\* of the other failed with Duplicate
C14_Witness ==
    /\ last.repo = "User"
    /\ last.op = "update"
    /\ \E e \in last.res.err : e.kind = "Duplicate"
    /\ Cardinality(users) = 2
    /\ Cardinality({u.email : u \in users}) = 2

\* every row that names an owner names one that is stored
NoDangling(U, F, G, FG, FA, FR, UFR) ==
    /\ \A f \in F : f.user_id \in IdsOf(U)
    /\ \A g \in G : g.user_id \in IdsOf(U)
    /\ \A p \in DOMAIN FG : p[1] \in IdsOf(F) /\ p[2] \in IdsOf(G)
    /\ \A a \in FA : a.friend_id \in IdsOf(F)
    /\ \A r \in FR :
           /\ r.user_id \in IdsOf(U)
           /\ r.friend_a_id \in IdsOf(F)
           /\ r.friend_b_id \in IdsOf(F)
    /\ \A r \in UFR : r.friend_id \in IdsOf(F)

\* C15: deleting a User cascades: after UserRepository::delete(u) returned
\* true no Friend or Group of u is left, nor any attribute, relationship,
\* user-friend relationship or membership of those Friends and Groups; and
\* in every state no row names an owner that is not stored
C15_UserDeleteCascades ==
    [][/\ NoDangling(users, friends, groups, friend_groups, friend_attributes,
                     friend_relationships, user_friend_relationships)
       /\ NoDangling(users', friends', groups', friend_groups', friend_attributes',
                     friend_relationships', user_friend_relationships')
       /\ Did("User", "delete") =>
              \A u \in Given(IdsOf(users)) :
                  UserDelete(u) =>
                      LET fs == {f.id : f \in {x \in friends : x.user_id = u}}
                          gs == {g.id : g \in {x \in groups : x.user_id = u}}
                      IN  /\ last'.res = Ok(TRUE)
                          /\ u \notin IdsOf(users')
                          /\ IdsOf(friends') \cap fs = {}
                          /\ IdsOf(groups') \cap gs = {}
                          /\ \A p \in DOMAIN friend_groups' :
                                 p[1] \notin fs /\ p[2] \notin gs
                          /\ \A a \in friend_attributes' : a.friend_id \notin fs
                          /\ \A r \in friend_relationships' :
                                 /\ r.user_id # u
                                 /\ r.friend_a_id \notin fs
                                 /\ r.friend_b_id \notin fs
                          /\ \A r \in user_friend_relationships' : r.friend_id \notin fs
      ]_vars

\* the owner of the populated store was deleted and took every row with it
C15_Witness ==
    /\ last.repo = "User"
    /\ last.op = "delete"
    /\ last.id = <<1>>
    /\ last.res = Ok(TRUE)
    /\ clock = 7
    /\ users = {}
    /\ friends = {}
    /\ groups = {}
    /\ friend_groups = EmptyBag
    /\ friend_attributes = {}
    /\ friend_relationships = {}
    /\ user_friend_relationships = {}

\* every field of a row of table that holds a value holds one in the row of
\* the same identifier of tableAfter
NeverClears(table, tableAfter) ==
    \A old \in table, new \in tableAfter :
        old.id = new.id =>
            \A f \in DOMAIN old : old[f] # NULL => new[f] # NULL

\* C16: no update call clears a field: in every repository, a field of a
\* stored row that is not null before an update call, whatever its input, is
\* not null after it, so no sequence of update calls clears it
C16_UpdateNeverClears ==
    [][last'.op = "update" =>
          /\ NeverClears(users, users')
          /\ NeverClears(friends, friends')
          /\ NeverClears(groups, groups')
          /\ NeverClears(friend_attributes, friend_attributes')
          /\ NeverClears(friend_relationships, friend_relationships')
          /\ NeverClears(user_friend_relationships, user_friend_relationships')
      ]_vars

\* an update of Ben, who has every optional field, wrote one of them and
\* left every field with a value
C16_Witness ==
    /\ last.repo = "Friend"
    /\ last.op = "update"
    /\ last.id = <<3>>
    /\ last.res.ok
    /\ \E f \in friends :
           /\ f.id = 3
           /\ f # FriendRow(3, Ben, 2)
           /\ \A c \in DOMAIN f : f[c] # NULL

\* the kinds from_sqlx gives
Kinds == {"NotFound", "Duplicate", "ForeignKeyViolation", "Database"}

C18_TransactionOrDatabaseError ==
    [][Did("Context", "transaction") =>
          /\ \A raw \in {PoolTimedOut, Io} :
                 Transaction(raw) =>
                     /\ ~last'.res.ok
                     /\ last'.res.val = {}
                     /\ last'.res.err
                            = {[kind |-> "Database", message |-> "", source |-> {raw}]}
                     /\ db' = db
          /\ Begin => last'.res.ok /\ last'.res.val = {TransactionHandle} /\ db' = db
          /\ last'.res.ok \/ \E raw \in RawErrors : Transaction(raw)
      ]_vars

\* on the populated store the pool was exhausted and transaction returned a
\* Database error wrapping the timeout
C18_Witness ==
    /\ last.repo = "Context"
    /\ last.op = "transaction"
    /\ ~last.res.ok
    /\ \E e \in last.res.err : e.kind = "Database" /\ e.source = {PoolTimedOut}
    /\ users = {UserRow(1, Owner, 0)}

\* the rows of a sequence
Range(s) == {s[i] : i \in DOMAIN s}

\* C19: FriendRepository::list_by_user(user) returns exactly the friends
\* whose owner is the user, each once and none of another user's, in
\* ascending order of first name
C19_ListByUserOwnedSorted ==
    \A u \in Ref(users) :
        /\ FriendListByUser(u) # {}
        /\ \A res \in FriendListByUser(u) :
               /\ res.ok
               /\ \A s \in res.val :
                      /\ Range(s) = {f \in friends : f.user_id = u}
                      /\ Len(s) = Cardinality(Range(s))
                      /\ \A i, j \in DOMAIN s :
                             i < j => s[i].first_name <= s[j].first_name

\* after an update of a friend's first name the owner's listing holds both
\* friends and can begin with Ben, whose identifier is the larger
C19_Witness ==
    /\ last.repo = "Friend"
    /\ last.op = "update"
    /\ last.res.ok
    /\ \E res \in FriendListByUser(1) : \E s \in res.val :
           Len(s) = 2 /\ s[1].id = 3 /\ s[2].id = 2
    /\ \E f \in friends : f.id = 3 /\ f.first_name <= 1

\* C20: list_groups(f) returns exactly the stored groups g with a membership
\* row (f, g), by name ascending; list_friends(g) returns exactly the stored
\* friends f with a membership row (f, g), by first name ascending; so g is
\* in list_groups(f) if and only if f is in list_friends(g)
C20_ListingsAgreeWithMemberships ==
    \A f \in Ref(friends), g \in Ref(groups) :
        /\ FriendListGroups(f) # {}
        /\ GroupListFriends(g) # {}
        /\ \A res \in FriendListGroups(f) : \A s \in res.val :
               /\ res.ok
               /\ Range(s) = {x \in groups : BagIn(<<f, x.id>>, friend_groups)}
               /\ Len(s) = Cardinality(Range(s))
               /\ \A i, j \in DOMAIN s : i < j => s[i].name <= s[j].name
        /\ \A res \in GroupListFriends(g) : \A s \in res.val :
               /\ res.ok
               /\ Range(s) = {x \in friends : BagIn(<<x.id, g>>, friend_groups)}
               /\ Len(s) = Cardinality(Range(s))
               /\ \A i, j \in DOMAIN s : i < j => s[i].first_name <= s[j].first_name
        /\ \A gs \in FriendListGroups(f), fs \in GroupListFriends(g) :
               \A sg \in gs.val, sf \in fs.val :
                   (g \in IdsOf(Range(sg))) <=> (f \in IdsOf(Range(sf)))

\* Ava is in both groups and Ben in one, and Work, renamed, is listed after
\* Home although its identifier is the smaller
C20_Witness ==
    /\ BagToSet(friend_groups) = {<<2, 4>>, <<2, 8>>, <<3, 4>>}
    /\ \A res \in FriendListGroups(2) : \A s \in res.val :
           Len(s) = 2 /\ s[1].id = 8 /\ s[2].id = 4
    /\ \E res \in GroupListFriends(4) : \E s \in res.val : Len(s) = 2
    /\ \A res \in FriendListGroups(3) : \A s \in res.val : Len(s) = 1

\* C21: FriendRelationshipRepository::list_by_friend(f) returns exactly the
\* relationship rows that store f as side A or as side B, each once, newest
\* first by creation time
C21_ListByFriendEitherSideNewestFirst ==
    \A f \in Ref(friends) :
        /\ FriendRelationshipListByFriend(f) # {}
        /\ \A res \in FriendRelationshipListByFriend(f) :
               /\ res.ok
               /\ \A s \in res.val :
                      /\ Range(s) = {r \in friend_relationships :
                                        r.friend_a_id = f \/ r.friend_b_id = f}
                      /\ Len(s) = Cardinality(Range(s))
                      /\ \A i, j \in DOMAIN s :
                             i < j => s[i].created_at >= s[j].created_at

\* a relationship that stores Ben as side A and Ava as side B was created
\* after Sibling, which stores them the other way round; the listing of Ava
\* holds the new row first and Sibling second
C21_Witness ==
    /\ last.repo = "FriendRelationship"
    /\ last.op = "create"
    /\ last.res.ok
    /\ \A res \in FriendRelationshipListByFriend(2) : \A s \in res.val :
           /\ Len(s) = 2
           /\ s[1].id = 8 /\ s[1].friend_a_id = 3 /\ s[1].friend_b_id = 2
           /\ s[2] = FriendRelationshipRow(6, Sibling, 5)

\* C22: a friend may hold several UserFriendRelationship rows: a create for
\* a stored friend succeeds whatever rows the friend has, of other
\* relationship types or of the same one, and adds a row; and list_by_friend
\* returns all rows of the friend, each once, by relationship type ascending
C22_SeveralRelationshipTypes ==
    [][/\ Did("UserFriendRelationship", "create") =>
              \A in \in CreateUserFriendRelationshipInputs :
                  (UserFriendRelationshipCreate(in) /\ in.friend_id \in IdsOf(friends))
                      => /\ last'.res.ok
                         /\ \A r \in last'.res.val :
                                /\ r \notin user_friend_relationships
                                /\ r.friend_id = in.friend_id
                                /\ r.relationship_type = in.relationship_type
                         /\ user_friend_relationships'
                                = user_friend_relationships \cup last'.res.val
                         /\ Cardinality(user_friend_relationships')
                                = Cardinality(user_friend_relationships) + 1
       /\ \A f \in Ref(friends') :
              /\ UserFriendRelationshipListByFriend(f)' # {}
              /\ \A res \in UserFriendRelationshipListByFriend(f)' :
                     /\ res.ok
                     /\ \A s \in res.val :
                            /\ Range(s) = {r \in user_friend_relationships' :
                                              r.friend_id = f}
                            /\ Len(s) = Cardinality(Range(s))
                            /\ \A i, j \in DOMAIN s :
                                   i < j => s[i].relationship_type
                                                <= s[j].relationship_type
      ]_vars

\* Ava's relationship type was changed to the second label and a row with
\* the first label created for her; her listing holds the new row first
C22_Witness ==
    /\ last.repo = "UserFriendRelationship"
    /\ last.op = "create"
    /\ last.res.ok
    /\ \A res \in UserFriendRelationshipListByFriend(2) : \A s \in res.val :
           /\ Len(s) = 2
           /\ s[1].id = 8 /\ s[1].relationship_type = 1
           /\ s[2].id = 7 /\ s[2].relationship_type = 2

\* C23: every stored FriendRelationship references two distinct friends: no
\* row has friend_a_id equal to friend_b_id, so a create with
\* friend_a_id = friend_b_id stores no row
C23_DistinctFriends ==
    \A r \in friend_relationships : r.friend_a_id # r.friend_b_id

\* a create with Ava as both sides succeeded and its row is stored
C23_Witness ==
    /\ last.repo = "FriendRelationship"
    /\ last.op = "create"
    /\ last.res.ok
    /\ \E r \in last.res.val :
           /\ r \in friend_relationships
           /\ r.friend_a_id = 2
           /\ r.friend_b_id = 2

\* C26: an upsert on a (friend, key) pair that has a row overwrites only
\* value and value_type: the row it returns is the stored row of the pair
\* with the identifier, friend, key and timestamps it had, and no other row
\* of any table is created, changed or removed
C26_UpsertOverwritesValueOnly ==
    [][Did("FriendAttribute", "upsert") =>
           \A in \in CreateFriendAttributeInputs :
               (FriendAttributeUpsert(in)
                   /\ \E a \in friend_attributes :
                          a.friend_id = in.friend_id /\ a.key = in.key)
                   => /\ last'.res.ok
                      /\ \E old \in friend_attributes, new \in last'.res.val :
                             /\ old.friend_id = in.friend_id /\ old.key = in.key
                             /\ \A c \in DOMAIN old \ {"value", "value_type"} :
                                    new[c] = old[c]
                             /\ new.value = in.value
                             /\ new.value_type
                                    = IF in.value_type = NULL THEN Text ELSE in.value_type
                             /\ friend_attributes' = (friend_attributes \ {old}) \cup {new}
                      /\ <<users, friends, groups, friend_groups, friend_relationships,
                           user_friend_relationships>>'
                            = <<users, friends, groups, friend_groups,
                                friend_relationships, user_friend_relationships>>
      ]_vars

\* an upsert on Ava's attribute of the populated store wrote a new value
\* into the row, which is still the only one and still row 5
C26_Witness ==
    /\ last.repo = "FriendAttribute"
    /\ last.op = "upsert"
    /\ last.id = <<2, 1>>
    /\ last.res.ok
    /\ last.res.val = friend_attributes
    /\ \E a \in friend_attributes :
           a.id = 5 /\ a.value = 2 /\ a.created_at = 4 /\ a.friend_id = 2 /\ a.key = 1
    /\ Cardinality(friend_attributes) = 1

\* the update of the step returned the row of its identifier, which holds
\* in the columns keep what it held before, and every other row of the table
\* is as it was
UpdateFrames(table, tableAfter, keep) ==
    /\ IdsOf(tableAfter) = IdsOf(table)
    /\ Cardinality(tableAfter) = Cardinality(table)
    /\ \A old \in table :
           IF last'.id = <<old.id>>
           THEN \E new \in last'.res.val :
                    /\ new \in tableAfter
                    /\ \A c \in keep : new[c] = old[c]
           ELSE old \in tableAfter

\* every table but the one the call of the step works on is as it was
OthersUnchanged(repo) ==
    /\ repo = "User" \/ users' = users
    /\ repo = "Friend" \/ friends' = friends
    /\ repo = "Group" \/ groups' = groups
    /\ repo = "FriendAttribute" \/ friend_attributes' = friend_attributes
    /\ repo = "FriendRelationship" \/ friend_relationships' = friend_relationships
    /\ repo = "UserFriendRelationship"
           \/ user_friend_relationships' = user_friend_relationships
    /\ friend_groups' = friend_groups

\* C27: update never changes identity or ownership: in every repository a
\* successful update(id, input) leaves the identifier and the owner of the
\* row unchanged (user_id of Friend, Group and FriendRelationship, friend_id
\* of FriendAttribute and UserFriendRelationship), leaves the key of a
\* FriendAttribute and friend_a_id and friend_b_id of a FriendRelationship
\* unchanged, and changes no row but the one of that identifier
C27_UpdateKeepsIdentityAndOwner ==
    [][(last'.op = "update" /\ last'.res.ok) =>
          /\ OthersUnchanged(last'.repo)
          /\ Did("User", "update") => UpdateFrames(users, users', {"id"})
          /\ Did("Friend", "update")
                => UpdateFrames(friends, friends', {"id", "user_id"})
          /\ Did("Group", "update")
                => UpdateFrames(groups, groups', {"id", "user_id"})
          /\ Did("FriendAttribute", "update")
                => UpdateFrames(friend_attributes, friend_attributes',
                                {"id", "friend_id", "key"})
          /\ Did("FriendRelationship", "update")
                => UpdateFrames(friend_relationships, friend_relationships',
                                {"id", "user_id", "friend_a_id", "friend_b_id"})
          /\ Did("UserFriendRelationship", "update")
                => UpdateFrames(user_friend_relationships, user_friend_relationships',
                                {"id", "friend_id"})
      ]_vars

\* an update of Sibling wrote the label of side A and left the row with its
\* identifier, its owner and its two friends
C27_Witness ==
    /\ last.repo = "FriendRelationship"
    /\ last.op = "update"
    /\ last.id = <<6>>
    /\ last.res.ok
    /\ last.res.val = friend_relationships
    /\ \E r \in friend_relationships :
           /\ r.id = 6 /\ r.user_id = 1 /\ r.friend_a_id = 2 /\ r.friend_b_id = 3
           /\ r.a_to_b = 2

\* the calls of callers c and d are both back, and were in flight together
Together(c, d, op) ==
    /\ c # d
    /\ calls[c].state = "done" /\ calls[c].op = op
    /\ calls[d].state = "done" /\ calls[d].op = op
    /\ d \in calls[c].overlap

\* C24: upsert is one atomic conflict-resolving write: when two upsert calls
\* for the same (friend, key) pair of a stored friend were in flight
\* together, in whatever order the store ran them, both returned Ok (neither
\* failed with Duplicate), exactly one row of the pair is stored, and it is
\* the row the call that ran last returned, with that call's value
C24_ConcurrentUpsertsBothSucceed ==
    \A c, d \in Clients :
        Together(c, d, "upsert") =>
            \A i \in calls[c].in, j \in calls[d].in :
                (i.friend_id = j.friend_id /\ i.key = j.key
                    /\ i.friend_id \in IdsOf(friends))
                    => /\ calls[c].res.ok
                       /\ calls[d].res.ok
                       /\ Cardinality({a \in friend_attributes :
                                          a.friend_id = i.friend_id /\ a.key = i.key}) = 1
                       /\ last.res.val = {a \in friend_attributes :
                                             a.friend_id = i.friend_id /\ a.key = i.key}
                       /\ \E w \in {c, d} :
                              /\ calls[w].res = last.res
                              /\ \A k \in calls[w].in, a \in last.res.val :
                                     a.value = k.value

\* two upserts of Ava's second key, which had no row, with different values
\* were in flight together; the first to run inserted row 8, the second
\* overwrote it, and the row holds the second's value
C24_Witness ==
    /\ Together("c1", "c2", "upsert")
    /\ \E i \in calls["c1"].in, j \in calls["c2"].in :
           /\ i.friend_id = 2 /\ i.key = 2 /\ i.value = 1
           /\ j.friend_id = 2 /\ j.key = 2 /\ j.value = 2
    /\ calls["c1"].res.ok
    /\ calls["c2"].res.ok
    /\ \E a \in calls["c1"].res.val : a.id = 8 /\ a.value = 1
    /\ \E a \in calls["c2"].res.val : a.id = 8 /\ a.value = 2
    /\ last.res = calls["c2"].res
    /\ {a \in friend_attributes : a.friend_id = 2 /\ a.key = 2} = calls["c2"].res.val
    /\ Cardinality(friend_attributes) = 2

\* C25: however concurrent add_to_group and remove_from_group calls
\* interleave, no (friend, group) pair has more than one membership row, and
\* add_to_group calls that were in flight together for the same pair of a
\* stored friend and a stored group all returned Ok
C25_ConcurrentMembershipsStayUnique ==
    /\ \A p \in DOMAIN friend_groups : CopiesIn(p, friend_groups) <= 1
    /\ \A c, d \in Clients :
           Together(c, d, "add_to_group") =>
               \A i \in calls[c].in :
                   (calls[d].in = {i}
                       /\ i.friend_id \in IdsOf(friends)
                       /\ i.group_id \in IdsOf(groups))
                       => /\ calls[c].res = OkNone
                          /\ calls[d].res = OkNone

\* two calls adding Ben to the Work group, of which he was no member, were
\* in flight together; both returned Ok and one membership row is stored
C25_Witness ==
    /\ Together("c1", "c2", "add_to_group")
    /\ calls["c1"].in = {[friend_id |-> 3, group_id |-> 4]}
    /\ calls["c2"].in = {[friend_id |-> 3, group_id |-> 4]}
    /\ calls["c1"].res = OkNone
    /\ calls["c2"].res = OkNone
    /\ last.op = "add_to_group"
    /\ BagIn(<<3, 4>>, friend_groups)
    /\ CopiesIn(<<3, 4>>, friend_groups) = 1

====
